---------------------------- MODULE Spec2Model ----------------------------
(***************************************************************************)
(* EZ-Pass statement parser (src/main.py).                                 *)
(*                                                                         *)
(* Strings are sequences of one-character strings, so that the regular    *)
(* expressions, str.split, str.strip, str.replace and float() are         *)
(* computed character by character as the program computes them.          *)
(* Python's None is the value None below; it is no character sequence.    *)
(***************************************************************************)
EXTENDS Integers, Sequences, FiniteSets, TLC

VARIABLES
    pc,          \* position of the running call
    value,       \* money_to_float_func: the argument
    result,      \* money_to_float_func: the returned value
    line,        \* parse_transaction_line_func: the argument
    line_tokens, \* parse_transaction_line_func: tokens = line.split()
    row,         \* parse_transaction_line_func: the returned dict, NoRow for None
    page_text,   \* iter_transaction_lines_func: the argument
    yielded,     \* iter_transaction_lines_func: the lines yielded, in order
    fs,          \* main: what the input path names on disk
    pdf_files,   \* main: the list collect_inputs_func returned
    frames,      \* parse_many_func: frames
    idx,         \* parse_many_func: position of the for loop over inputs
    page_no,     \* parse_pdf_func: position of the for loop over pdf.pages
    rows,        \* parse_pdf_func: rows
    tx_df,       \* main: the frame parse_many_func returned
    error        \* main: the exception that ended the run, "none" without one

vars == <<pc, value, result, line, line_tokens, row, page_text, yielded, fs, pdf_files,
          frames, idx, page_no, rows, tx_df, error>>

None == <<"None">>

-----------------------------------------------------------------------------
(* Characters and the str methods the program uses                         *)

DigitChars == {"0", "1", "2", "3", "4", "5", "6", "7", "8", "9"}

\* what str.split() and str.strip() treat as whitespace
Whitespace == {" ", "\t", "\n", "\r", "\f"}

\* what str.splitlines() treats as a line boundary
LineBreaks == {"\n", "\r", "\f"}

\* str.isdigit(): non-empty and every character a digit
str_isdigit(s) ==
    /\ Len(s) > 0
    /\ \A i \in 1..Len(s) : s[i] \in DigitChars

\* re ^...$ : "$" also matches just before one trailing newline
BeforeDollar(s) ==
    IF Len(s) > 0 /\ s[Len(s)] = "\n" THEN {s, SubSeq(s, 1, Len(s) - 1)} ELSE {s}

DateBody(s) ==
    /\ Len(s) = 8
    /\ \A i \in {1, 2, 4, 5, 7, 8} : s[i] \in DigitChars
    /\ s[3] = "/"
    /\ s[6] = "/"

\* DATE_RE with the separators left unchecked
DateAnySeparator(s) ==
    \E t \in BeforeDollar(s) :
        /\ Len(t) = 8
        /\ \A i \in {1, 2, 4, 5, 7, 8} : t[i] \in DigitChars

DATE_RE(s) == \E t \in BeforeDollar(s) : DateBody(t)

TimeBody(s) ==
    /\ Len(s) = 5
    /\ \A i \in {1, 2, 4, 5} : s[i] \in DigitChars
    /\ s[3] = ":"

TIME_RE(s) == \E t \in BeforeDollar(s) : TimeBody(t)

\* str.replace(old, "") for a one-character old
str_remove(s, c) == SelectSeq(s, LAMBDA x : x # c)

\* str.strip(): from the first to the last character that is no whitespace
str_strip(s) ==
    LET keep == {i \in 1..Len(s) : s[i] \notin Whitespace}
    IN  IF keep = {} THEN <<>>
        ELSE SubSeq(s, CHOOSE i \in keep : \A j \in keep : i <= j,
                       CHOOSE i \in keep : \A j \in keep : j <= i)

\* the elements of a set of numbers in increasing order
Ascending(S) ==
    [k \in 1..Cardinality(S) |->
        CHOOSE i \in S : Cardinality({j \in S : j < i}) = k - 1]

\* str.split(): the maximal runs of non-whitespace characters, in order
str_split(s) ==
    LET starts == {i \in 1..Len(s) :
                      s[i] \notin Whitespace /\ (i = 1 \/ s[i - 1] \in Whitespace)}
        ends   == {i \in 1..Len(s) :
                      s[i] \notin Whitespace /\ (i = Len(s) \/ s[i + 1] \in Whitespace)}
        from   == Ascending(starts)
        to(i)  == CHOOSE j \in ends : j >= i /\ \A e \in ends : e >= i => j <= e
    IN  [k \in 1..Cardinality(starts) |-> SubSeq(s, from[k], to(from[k]))]

\* str.splitlines(): cut at every line boundary ("\r\n" is one boundary); a
\* boundary at the very end adds no empty last line.
str_splitlines(s) ==
    LET n      == Len(s)
        \* the last character of each boundary
        ends   == {i \in 1..n : s[i] \in LineBreaks
                                /\ ~(s[i] = "\r" /\ i < n /\ s[i + 1] = "\n")}
        to     == Ascending(ends)
        m      == Cardinality(ends)
        first(k) == IF k = 1 THEN 1 ELSE to[k - 1] + 1
        last(k)  == IF s[to[k]] = "\n" /\ to[k] > first(k) /\ s[to[k] - 1] = "\r"
                    THEN to[k] - 2 ELSE to[k] - 1
        cut    == [k \in 1..m |-> SubSeq(s, first(k), last(k))]
    IN  IF m = 0 THEN (IF n = 0 THEN <<>> ELSE <<s>>)
        ELSE IF to[m] = n THEN cut
        ELSE Append(cut, SubSeq(s, to[m] + 1, n))

\* sep.join(parts)
RECURSIVE str_join(_, _)
str_join(sep, parts) ==
    IF parts = <<>> THEN <<>>
    ELSE IF Len(parts) = 1 THEN parts[1]
    ELSE parts[1] \o sep \o str_join(sep, Tail(parts))

\* Python slice seq[a:b] for 0 <= a and b counted from the front
Slice(s, a, b) == SubSeq(s, a + 1, b)


-----------------------------------------------------------------------------
(* float(str), the conversion money_to_float_func relies on.               *)
(* A float is <<"float", neg, class, mant, exp10>>: class "finite" stands   *)
(* for the double nearest to mant * 10^exp10 (float() rounds correctly),    *)
(* "inf" and "nan" for the two special values.                              *)

ValueError == <<"ValueError">>

Float(neg, class, mant, exp10) == <<"float", neg, class, mant, exp10>>

IsFloat(f) == Len(f) = 5 /\ f[1] = "float"

\* unary minus on a float
FloatNeg(f) == Float(~f[2], f[3], f[4], f[5])

\* str.lower() on the letters float() looks at
LowerChar(c) ==
    CASE c = "I" -> "i" [] c = "N" -> "n" [] c = "F" -> "f" [] c = "A" -> "a"
      [] c = "T" -> "t" [] c = "Y" -> "y" [] c = "E" -> "e" [] OTHER -> c

str_lower(s) == [i \in 1..Len(s) |-> LowerChar(s[i])]

\* the longest prefix of s made of characters of S
TakeWhile(s, S) ==
    LET stop == {i \in 1..Len(s) : s[i] \notin S}
    IN  IF stop = {} THEN s
        ELSE SubSeq(s, 1, (CHOOSE i \in stop : \A j \in stop : i <= j) - 1)

DropN(s, n) == SubSeq(s, n + 1, Len(s))

\* digits with single underscores between them: 1, 10, 1_000
IsDigitPart(s) ==
    /\ Len(s) > 0
    /\ s[1] \in DigitChars
    /\ s[Len(s)] \in DigitChars
    /\ \A i \in 1..Len(s) - 1 : ~(s[i] = "_" /\ s[i + 1] = "_")

DigitValue(c) ==
    CASE c = "0" -> 0 [] c = "1" -> 1 [] c = "2" -> 2 [] c = "3" -> 3 [] c = "4" -> 4
      [] c = "5" -> 5 [] c = "6" -> 6 [] c = "7" -> 7 [] c = "8" -> 8 [] c = "9" -> 9

\* the number a run of digits (underscores skipped) denotes, after acc
RECURSIVE DigitsToNat(_, _)
DigitsToNat(s, acc) ==
    IF s = <<>> THEN acc
    ELSE IF Head(s) = "_" THEN DigitsToNat(Tail(s), acc)
    ELSE DigitsToNat(Tail(s), acc * 10 + DigitValue(Head(s)))

RECURSIVE NumDigits(_)
NumDigits(n) == IF n < 10 THEN 1 ELSE 1 + NumDigits(n \div 10)

\* a double holds magnitudes below about 1.8e308; above, float() gives inf
FloatOfDecimal(mant, exp10) ==
    IF mant # 0 /\ NumDigits(mant) + exp10 > 309
    THEN Float(FALSE, "inf", 0, 0)
    ELSE Float(FALSE, "finite", mant, exp10)

DigitRun == DigitChars \cup {"_"}

\* the parts are read: ip and fp the digits before and after the ".", ep the
\* digits of the exponent (hasE: there is an "e"), rest what follows them
Decimal(ip, fp, hasE, eneg, ep, rest) ==
    IF /\ ip # <<>> \/ fp # <<>>
       /\ ip = <<>> \/ IsDigitPart(ip)
       /\ fp = <<>> \/ IsDigitPart(fp)
       /\ hasE => IsDigitPart(ep)
       /\ rest = <<>>
    THEN FloatOfDecimal(DigitsToNat(fp, DigitsToNat(ip, 0)),
                        (IF eneg THEN 0 - DigitsToNat(ep, 0) ELSE DigitsToNat(ep, 0))
                            - Len(str_remove(fp, "_")))
    ELSE ValueError

ExponentDigits(ip, fp, eneg, s) ==
    Decimal(ip, fp, TRUE, eneg, TakeWhile(s, DigitRun),
            DropN(s, Len(TakeWhile(s, DigitRun))))

ExponentSign(ip, fp, s) ==
    IF s # <<>> /\ Head(s) \in {"+", "-"}
    THEN ExponentDigits(ip, fp, Head(s) = "-", Tail(s))
    ELSE ExponentDigits(ip, fp, FALSE, s)

Exponent(ip, fp, s) ==
    IF s # <<>> /\ Head(s) \in {"e", "E"}
    THEN ExponentSign(ip, fp, Tail(s))
    ELSE Decimal(ip, fp, FALSE, FALSE, <<>>, s)

Fraction(ip, s) ==
    IF s # <<>> /\ Head(s) = "."
    THEN Exponent(ip, TakeWhile(Tail(s), DigitRun),
                  DropN(Tail(s), Len(TakeWhile(Tail(s), DigitRun))))
    ELSE Exponent(ip, <<>>, s)

\* [digitpart] ["." [digitpart]] [("e" | "E") ["+" | "-"] digitpart]
ParseDecimal(s) ==
    Fraction(TakeWhile(s, DigitRun), DropN(s, Len(TakeWhile(s, DigitRun))))

\* "inf", "infinity", "nan" in any case, or a decimal number
FloatBody(s) ==
    IF str_lower(s) \in {<<"i", "n", "f">>, <<"i", "n", "f", "i", "n", "i", "t", "y">>}
    THEN Float(FALSE, "inf", 0, 0)
    ELSE IF str_lower(s) = <<"n", "a", "n">> THEN Float(FALSE, "nan", 0, 0)
    ELSE ParseDecimal(s)

\* the sign applied to what the rest of the text converts to
Signed(neg, f) ==
    IF f = ValueError THEN ValueError ELSE IF neg THEN FloatNeg(f) ELSE f

FloatOfStripped(t) ==
    IF t # <<>> /\ Head(t) \in {"+", "-"}
    THEN Signed(Head(t) = "-", FloatBody(Tail(t)))
    ELSE FloatBody(t)

\* float(s): surrounding whitespace, an optional sign, then the number
py_float(s) == FloatOfStripped(str_strip(s))

\* return -amount if negative else amount; None on ValueError
SignedOrNone(negative, amount) ==
    IF amount = ValueError THEN None
    ELSE IF negative THEN FloatNeg(amount) ELSE amount

\* money_to_float_func after value = value.strip(), with the thousands
\* separators left in
MoneyKeepingCommas(stripped) ==
    SignedOrNone(stripped # <<>> /\ Head(stripped) = "-",
                 py_float(str_remove(str_remove(stripped, "$"), "-")))

\* money_to_float_func after value = value.strip()
MoneyOfStripped(stripped) ==
    SignedOrNone(stripped # <<>> /\ Head(stripped) = "-",
                 py_float(str_remove(str_remove(str_remove(stripped, "$"), ","), "-")))

\* money_to_float_func(value)
money_to_float_func(v) ==
    IF v = None \/ v = <<>> THEN None ELSE MoneyOfStripped(str_strip(v))

\* MONEY_RE: ^-?\$[\d,]+\.\d{2}$
MoneyBody(s) ==
    LET t  == IF s # <<>> /\ Head(s) = "-" THEN Tail(s) ELSE s
        ip == IF t = <<>> THEN <<>> ELSE TakeWhile(Tail(t), DigitChars \cup {","})
        r  == IF t = <<>> THEN <<>> ELSE DropN(Tail(t), Len(ip))
    IN  /\ t # <<>>
        /\ Head(t) = "$"
        /\ ip # <<>>
        /\ Len(r) = 3
        /\ r[1] = "."
        /\ r[2] \in DigitChars
        /\ r[3] \in DigitChars

MONEY_RE(s) == \E t \in BeforeDollar(s) : MoneyBody(t)

-----------------------------------------------------------------------------
(* parse_transaction_line_func                                             *)

\* the function returned None instead of a dict
NoRow == [none |-> TRUE]

empty_row ==
    [lane_txn_id |-> None, posting_date |-> None, transaction_date |-> None,
     tag_or_plate |-> None, agency |-> None, plaza |-> None,
     entry_date |-> None, entry_time |-> None, exit_plaza |-> None,
     exit_date |-> None, exit_time |-> None, plan |-> None,
     vehicle_class |-> None, amount |-> None, balance |-> None,
     description |-> None]

\* tokens[-k], k >= 1
FromEnd(tokens, k) == tokens[Len(tokens) - k + 1]

\* the entry/exit fields of the new layout, read from middle = tokens[5:-4]
LaneMiddle(r, middle) ==
    IF middle = <<>> THEN r
    ELSE LET isDate == DATE_RE(middle[1])
             r1   == IF isDate
                     THEN [r EXCEPT !.entry_date = middle[1],
                                    !.entry_time =
                                        IF Len(middle) > 1 /\ TIME_RE(middle[2])
                                        THEN middle[2] ELSE None]
                     ELSE r
             rest == IF isDate THEN Slice(middle, 2, Len(middle)) ELSE middle
         IN  IF rest = <<>> THEN r1
             ELSE [r1 EXCEPT !.exit_plaza = rest[1],
                             !.exit_date =
                                 IF Len(rest) > 1 /\ DATE_RE(rest[2])
                                 THEN rest[2] ELSE None,
                             !.exit_time =
                                 IF Len(rest) > 2 /\ TIME_RE(rest[3])
                                 THEN rest[3] ELSE None]

\* the same fields of the old layout
OldMiddle(r, middle) ==
    IF middle = <<>> THEN r
    ELSE LET isDate == DATE_RE(middle[1])
             r1   == IF isDate
                     THEN [r EXCEPT !.entry_date = middle[1],
                                    !.entry_time =
                                        IF Len(middle) > 1 /\ TIME_RE(middle[2])
                                        THEN middle[2] ELSE None]
                     ELSE r
             rest == IF isDate THEN Slice(middle, 2, Len(middle)) ELSE middle
         IN  IF rest = <<>> THEN r1
             ELSE [r1 EXCEPT !.exit_plaza = rest[1],
                             !.exit_date =
                                 IF Len(rest) > 1 /\ DATE_RE(rest[2])
                                 THEN rest[2] ELSE None,
                             !.exit_time =
                                 IF Len(rest) > 2 /\ TIME_RE(rest[3])
                                 THEN rest[3] ELSE None]

\* LaneRow falling back to the description below 8 tokens instead of 9
LaneRowBelowEight(tokens, amount, balance) ==
    LET n  == Len(tokens)
        r0 == [empty_row EXCEPT !.lane_txn_id = tokens[1],
                                !.posting_date = tokens[2]]
    IN  IF n < 8
        THEN [r0 EXCEPT !.amount = amount,
                        !.balance = balance,
                        !.description =
                            IF n > 4 THEN str_join(<<" ">>, Slice(tokens, 2, n - 2))
                            ELSE None]
        ELSE LET r1 == [r0 EXCEPT !.tag_or_plate = tokens[3],
                                  !.agency = IF n > 3 THEN tokens[4] ELSE None,
                                  !.plaza = IF n > 4 THEN tokens[5] ELSE None]
                 r2 == IF n >= 6
                       THEN [r1 EXCEPT !.plan = FromEnd(tokens, 4),
                                       !.vehicle_class = FromEnd(tokens, 3)]
                       ELSE r1
                 r3 == LaneMiddle(r2, Slice(tokens, 5, n - 4))
             IN  [r3 EXCEPT !.amount = amount, !.balance = balance]

\* FORMAT B (new): lane txn id, then a date
LaneRow(tokens, amount, balance) ==
    LET n  == Len(tokens)
        r0 == [empty_row EXCEPT !.lane_txn_id = tokens[1],
                                !.posting_date = tokens[2]]
    IN  IF n < 9
        THEN [r0 EXCEPT !.amount = amount,
                        !.balance = balance,
                        !.description =
                            IF n > 4 THEN str_join(<<" ">>, Slice(tokens, 2, n - 2))
                            ELSE None]
        ELSE LET r1 == [r0 EXCEPT !.tag_or_plate = tokens[3],
                                  !.agency = IF n > 3 THEN tokens[4] ELSE None,
                                  !.plaza = IF n > 4 THEN tokens[5] ELSE None]
                 r2 == IF n >= 6
                       THEN [r1 EXCEPT !.plan = FromEnd(tokens, 4),
                                       !.vehicle_class = FromEnd(tokens, 3)]
                       ELSE r1
                 r3 == LaneMiddle(r2, Slice(tokens, 5, n - 4))
             IN  [r3 EXCEPT !.amount = amount, !.balance = balance]

\* FORMAT A (old): posting date, then transaction date
OldRow(tokens, amount, balance) ==
    LET n  == Len(tokens)
        r0 == [empty_row EXCEPT !.posting_date = tokens[1],
                                !.transaction_date = tokens[2],
                                !.tag_or_plate = IF n > 2 THEN tokens[3] ELSE None]
    IN  IF n <= 6
        THEN [r0 EXCEPT !.description = str_join(<<" ">>, Slice(tokens, 2, n - 2)),
                        !.amount = amount,
                        !.balance = balance]
        ELSE LET r1 == [r0 EXCEPT !.agency = IF n > 3 THEN tokens[4] ELSE None,
                                  !.plaza = IF n > 4 THEN tokens[5] ELSE None,
                                  !.plan = IF n >= 6 THEN FromEnd(tokens, 4) ELSE None,
                                  !.vehicle_class =
                                      IF n >= 5 THEN FromEnd(tokens, 3) ELSE None]
                 r2 == OldMiddle(r1, Slice(tokens, 5, n - 4))
             IN  [r2 EXCEPT !.amount = amount, !.balance = balance]

\* FeeRow taking the amount token into the description
FeeRowJoiningAmount(tokens, amount, balance) ==
    LET n == Len(tokens)
    IN  [empty_row EXCEPT !.posting_date = tokens[1],
                          !.description =
                              IF n > 3 THEN str_join(<<" ">>, Slice(tokens, 1, n - 1))
                              ELSE None,
                          !.amount = amount,
                          !.balance = balance]

\* fee / payment row: one date at the start
FeeRow(tokens, amount, balance) ==
    LET n == Len(tokens)
    IN  [empty_row EXCEPT !.posting_date = tokens[1],
                          !.description =
                              IF n > 3 THEN str_join(<<" ">>, Slice(tokens, 1, n - 2))
                              ELSE None,
                          !.amount = amount,
                          !.balance = balance]

\* the tests the three layouts are told apart by, in the order of the code
IsLaneLine(tokens) == str_isdigit(tokens[1]) /\ DATE_RE(tokens[2])
IsOldLine(tokens) == DATE_RE(tokens[1]) /\ Len(tokens) > 1 /\ DATE_RE(tokens[2])
IsFeeLine(tokens) == DATE_RE(tokens[1])

\* ParseTokens reading amount and balance one token early
ParseWithShiftedTail(tokens) ==
    IF Len(tokens) < 4 THEN NoRow
    ELSE LET amount  == FromEnd(tokens, 3)
             balance == FromEnd(tokens, 2)
         IN  IF IsLaneLine(tokens) THEN LaneRow(tokens, amount, balance)
             ELSE IF IsOldLine(tokens) THEN OldRow(tokens, amount, balance)
             ELSE IF IsFeeLine(tokens) THEN FeeRow(tokens, amount, balance)
             ELSE NoRow

\* ParseTokens asking for five tokens instead of four
ParseTokensOfFive(tokens) ==
    IF Len(tokens) < 5 THEN NoRow
    ELSE LET amount  == FromEnd(tokens, 2)
             balance == FromEnd(tokens, 1)
         IN  IF IsLaneLine(tokens) THEN LaneRow(tokens, amount, balance)
             ELSE IF IsOldLine(tokens) THEN OldRow(tokens, amount, balance)
             ELSE IF IsFeeLine(tokens) THEN FeeRow(tokens, amount, balance)
             ELSE NoRow

\* the body of parse_transaction_line_func once the line is split
ParseTokens(tokens) ==
    IF Len(tokens) < 4 THEN NoRow
    ELSE LET amount  == FromEnd(tokens, 2)
             balance == FromEnd(tokens, 1)
         IN  IF IsLaneLine(tokens) THEN LaneRow(tokens, amount, balance)
             ELSE IF IsOldLine(tokens) THEN OldRow(tokens, amount, balance)
             ELSE IF IsFeeLine(tokens) THEN FeeRow(tokens, amount, balance)
             ELSE NoRow

parse_transaction_line_func(ln) == ParseTokens(str_split(ln))

\* --- where each field is read from ---

\* the fields that hold one token of the line
PositionalFields ==
    {"lane_txn_id", "posting_date", "transaction_date", "tag_or_plate", "agency",
     "plaza", "plan", "vehicle_class", "amount", "balance"}

\* position 0: the field is left None
NoPositions == [f \in PositionalFields |-> 0]

\* the index (from 1) of the token the code stores in each positional field
\* of a line of n tokens; tokens[-k] is index n - k + 1
LanePositions(n) ==
    LET p0 == [NoPositions EXCEPT !.lane_txn_id = 1, !.posting_date = 2]
    IN  IF n < 9
        THEN [p0 EXCEPT !.amount = n - 1, !.balance = n]
        ELSE [p0 EXCEPT !.tag_or_plate = 3,
                        !.agency = IF n > 3 THEN 4 ELSE 0,
                        !.plaza = IF n > 4 THEN 5 ELSE 0,
                        !.plan = IF n >= 6 THEN n - 3 ELSE 0,
                        !.vehicle_class = IF n >= 6 THEN n - 2 ELSE 0,
                        !.amount = n - 1,
                        !.balance = n]

OldPositions(n) ==
    LET p0 == [NoPositions EXCEPT !.posting_date = 1,
                                  !.transaction_date = 2,
                                  !.tag_or_plate = IF n > 2 THEN 3 ELSE 0]
    IN  IF n <= 6
        THEN [p0 EXCEPT !.amount = n - 1, !.balance = n]
        ELSE [p0 EXCEPT !.agency = IF n > 3 THEN 4 ELSE 0,
                        !.plaza = IF n > 4 THEN 5 ELSE 0,
                        !.plan = IF n >= 6 THEN n - 3 ELSE 0,
                        !.vehicle_class = IF n >= 5 THEN n - 2 ELSE 0,
                        !.amount = n - 1,
                        !.balance = n]

FeePositions(n) ==
    [NoPositions EXCEPT !.posting_date = 1, !.amount = n - 1, !.balance = n]

TokenPositions(tokens) ==
    IF Len(tokens) < 4 THEN NoPositions
    ELSE IF IsLaneLine(tokens) THEN LanePositions(Len(tokens))
    ELSE IF IsOldLine(tokens) THEN OldPositions(Len(tokens))
    ELSE IF IsFeeLine(tokens) THEN FeePositions(Len(tokens))
    ELSE NoPositions

-----------------------------------------------------------------------------
(* iter_transaction_lines_func                                             *)

\* IsTransactionLine asking for three tokens instead of four
IsTransactionLineOfThree(ln) ==
    /\ ln # <<>>
    /\ LET toks == str_split(ln)
       IN  /\ Len(toks) >= 3
           /\ \/ str_isdigit(toks[1]) /\ Len(toks) > 1 /\ DATE_RE(toks[2])
              \/ DATE_RE(toks[1])

\* whether the generator yields this (already stripped) line
IsTransactionLine(ln) ==
    /\ ln # <<>>
    /\ LET toks == str_split(ln)
       IN  /\ Len(toks) >= 4
           /\ \/ str_isdigit(toks[1]) /\ Len(toks) > 1 /\ DATE_RE(toks[2])
              \/ DATE_RE(toks[1])

\* the for loop over the stripped lines: acc is what was yielded so far
RECURSIVE YieldFrom(_, _)
YieldFrom(lns, acc) ==
    IF lns = <<>> THEN acc
    ELSE LET ln == str_strip(Head(lns))
         IN  YieldFrom(Tail(lns), IF IsTransactionLine(ln) THEN Append(acc, ln) ELSE acc)

iter_transaction_lines_func(text) == YieldFrom(str_splitlines(text), <<>>)

-----------------------------------------------------------------------------
(* Bounds of the inputs                                                    *)

MaxRawLen == 3     \* longest arbitrary token handed to money_to_float_func
MaxIntLen == 5     \* longest integer part of a money-formatted token
MaxBody == 7       \* most tokens of a line between its first two and last two
MaxLines == 2      \* most lines of a page text handed to the line selector
MaxFiles == 2      \* most files of the input folder

SeqsUpTo(S, n) == UNION {[1..k -> S] : k \in 0..n}

-----------------------------------------------------------------------------
(* SpecMoney: one call of money_to_float_func on any token                 *)

MoneyChars == {"0", "5", ".", "$", ",", "-", "+", "_", "e", "n", "a", "i", "f"}

\* every short token, and the money-formatted tokens -$D.DD / $D.DD
RawTokens == SeqsUpTo(MoneyChars, MaxRawLen)

MoneyTokens ==
    { sg \o <<"$">> \o ip \o <<".">> \o dd :
        sg \in {<<>>, <<"-">>},
        ip \in SeqsUpTo({"0", "5", ","}, MaxIntLen) \ {<<>>},
        dd \in [1..2 -> {"0", "5"}] }

MoneyInputs == RawTokens \cup MoneyTokens \cup {None}

\* the variables a specification does not use keep these values
IdleMoney == value = None /\ result = None
IdleLine == line = <<>> /\ line_tokens = <<>> /\ row = NoRow
IdleSelect == page_text = <<>> /\ yielded = <<>>
IdleMain ==
    /\ fs = [kind |-> "unset"]
    /\ pdf_files = <<>>
    /\ frames = <<>>
    /\ idx = 0
    /\ page_no = 0
    /\ rows = <<>>
    /\ tx_df = <<>>
    /\ error = "none"

InitMoney ==
    /\ pc = "money_call"
    /\ value \in MoneyInputs
    /\ result = None
    /\ IdleLine /\ IdleSelect /\ IdleMain

MoneyToFloat ==
    /\ pc = "money_call"
    /\ result' = money_to_float_func(value)
    /\ pc' = "money_done"
    /\ UNCHANGED <<value, line, line_tokens, row, page_text, yielded, fs, pdf_files,
                   frames, idx, page_no, rows, tx_df, error>>

NextMoney == MoneyToFloat

SpecMoney == InitMoney /\ [][NextMoney]_vars

-----------------------------------------------------------------------------
(* SpecLine: one call of parse_transaction_line_func on any line           *)

TokLane == <<"3", "1", "4", "2", "0", "7", "1", "0">>
TokDate == <<"0", "4", "/", "0", "6", "/", "2", "5">>
TokTime == <<"0", "4", ":", "2", "7">>
TokWord == <<"B", "W", "B">>
TokAmount == <<"-", "$", "6", ".", "9", "4">>
TokBalance == <<"$", "7", "3", ".", "1", "5">>

\* token lists: two leading tokens, a body, then amount and balance. The
\* three ways a row can start come with every body, the other starts with
\* the short bodies.
RowStarts == {<<TokLane, TokDate>>, <<TokDate, TokDate>>, <<TokDate, TokWord>>}
OtherStarts == {<<TokLane, TokWord>>, <<TokWord, TokDate>>, <<TokWord, TokWord>>,
                <<TokLane, TokLane>>}

LongLists ==
    { h \o body \o <<TokAmount, TokBalance>> :
        h \in RowStarts,
        body \in SeqsUpTo({TokDate, TokTime, TokWord}, MaxBody) }
    \cup
    { h \o body \o <<TokAmount, TokBalance>> :
        h \in OtherStarts,
        body \in SeqsUpTo({TokDate, TokTime, TokWord}, 3) }

\* token lists too short to be a transaction row
ShortLists == SeqsUpTo({TokLane, TokDate}, 3)

\* lines as the extracted text has them: tokens separated by one blank, and
\* for the short ones also by tabs, with blanks around
LineInputs ==
    { str_join(<<" ">>, toks) : toks \in LongLists \cup ShortLists }
    \cup { <<" ">> \o str_join(<<"\t", " ">>, toks) \o <<" ">> :
             toks \in {l \in LongLists : Len(l) <= 5} \cup ShortLists }

InitLine ==
    /\ pc = "parse_call"
    /\ line \in LineInputs
    /\ line_tokens = <<>>
    /\ row = NoRow
    /\ IdleMoney /\ IdleSelect /\ IdleMain

ParseLine ==
    /\ pc = "parse_call"
    /\ line_tokens' = str_split(line)
    /\ row' = ParseTokens(line_tokens')
    /\ pc' = "parse_done"
    /\ UNCHANGED <<value, result, line, page_text, yielded, fs, pdf_files,
                   frames, idx, page_no, rows, tx_df, error>>

NextLine == ParseLine

SpecLine == InitLine /\ [][NextLine]_vars

-----------------------------------------------------------------------------
(* SpecSelect: one run of iter_transaction_lines_func over any page text   *)

\* lines of three and four tokens starting the ways a line can start,
\* an empty line and a blank one
SelectLines ==
    { str_join(<<" ">>, <<h0, h1>> \o fill) :
        h0 \in {TokLane, TokDate, TokWord},
        h1 \in {TokDate, TokWord},
        fill \in {<<TokAmount>>, <<TokAmount, TokBalance>>} }
    \cup {<<>>, <<" ", "\t">>, <<" ">> \o TokDate \o <<" ", "a", " ", "b", " ", "c", " ">>}

\* page texts: lines ended by "\n" or "\r\n", the last one ended or not
PageInputs ==
    { str_join(br, lns) \o last :
        lns \in SeqsUpTo(SelectLines, MaxLines),
        br \in {<<"\n">>, <<"\r", "\n">>},
        last \in {<<>>, <<"\n">>} }

InitSelect ==
    /\ pc = "select_call"
    /\ page_text \in PageInputs
    /\ yielded = <<>>
    /\ IdleMoney /\ IdleLine /\ IdleMain

IterTransactionLines ==
    /\ pc = "select_call"
    /\ yielded' = iter_transaction_lines_func(page_text)
    /\ pc' = "select_done"
    /\ UNCHANGED <<value, result, line, line_tokens, row, page_text, fs, pdf_files,
                   frames, idx, page_no, rows, tx_df, error>>

NextSelect == IterTransactionLines

SpecSelect == InitSelect /\ [][NextSelect]_vars

-----------------------------------------------------------------------------
(* Spec: one run of main() on any input path                               *)

\* --- parse_pdf_func ---

\* text = page.extract_text() or ""
PageText(extracted) == IF extracted = None \/ extracted = <<>> THEN <<>> ELSE extracted

\* the inner for loop: parse every yielded line, keep the rows that are dicts
RECURSIVE ParseLines(_, _)
ParseLines(lns, acc) ==
    IF lns = <<>> THEN acc
    ELSE LET r == parse_transaction_line_func(Head(lns))
         IN  ParseLines(Tail(lns), IF r # NoRow THEN Append(acc, r) ELSE acc)

\* one turn of the loop over pdf.pages
PageRows(acc, extracted) ==
    ParseLines(iter_transaction_lines_func(PageText(extracted)), acc)

\* the numeric helper columns, dropping the rows whose amount does not convert
AddNumericDroppingFailed(rs) ==
    LET kept == SelectSeq(rs, LAMBDA r : money_to_float_func(r.amount) # None)
    IN  [k \in 1..Len(kept) |->
            kept[k] @@ [amount_num  |-> money_to_float_func(kept[k].amount),
                        balance_num |-> money_to_float_func(kept[k].balance)]]

\* df = pd.DataFrame(rows) with amount_num and balance_num added; a frame is
\* the sequence of its rows, and an empty frame has no columns at all
AddNumericColumns(rs) ==
    [k \in 1..Len(rs) |->
        rs[k] @@ [amount_num  |-> money_to_float_func(rs[k].amount),
                  balance_num |-> money_to_float_func(rs[k].balance)]]

\* --- parse_many_func ---

\* pd.concat putting the frames in reverse order
RECURSIVE ConcatReversed(_)
ConcatReversed(fr) ==
    IF fr = <<>> THEN <<>> ELSE ConcatReversed(Tail(fr)) \o Head(fr)

\* pd.concat(frames, ignore_index=True) if frames else pd.DataFrame()
RECURSIVE pd_concat(_)
pd_concat(fr) ==
    IF fr = <<>> THEN <<>> ELSE Head(fr) \o pd_concat(Tail(fr))

\* --- collect_inputs_func ---

\* sorted(path.glob("*.pdf")): file names are numbers, in path order
GlobPdf(files) == Ascending({n \in DOMAIN files : files[n].pdf})

\* collect_inputs_func returning an empty list for a folder without PDFs
CollectWithoutFolderCheck(f) ==
    IF f.kind = "file" THEN [raised |-> "none", files |-> <<f.path>>]
    ELSE IF f.kind = "dir" THEN [raised |-> "none", files |-> GlobPdf(f.files)]
    ELSE [raised |-> "FileNotFoundError: Input path not found.", files |-> <<>>]

collect_inputs_func(f) ==
    IF f.kind = "file" THEN [raised |-> "none", files |-> <<f.path>>]
    ELSE IF f.kind = "dir"
    THEN (IF GlobPdf(f.files) = <<>>
          THEN [raised |-> "FileNotFoundError: No PDF files found in folder.",
                files |-> <<>>]
          ELSE [raised |-> "none", files |-> GlobPdf(f.files)])
    ELSE [raised |-> "FileNotFoundError: Input path not found.", files |-> <<>>]

\* --- the inputs ---

LaneLine ==
    str_join(<<" ">>, <<TokLane, TokDate, TokLane, TokWord, TokWord, TokDate, TokTime,
                        TokWord, <<"3", "1">>, TokAmount, TokBalance>>)
FeeLine ==
    str_join(<<" ">>, <<TokDate, <<"F", "e", "e">>, <<"-", "$", "1", ".", "0", "0">>,
                        TokBalance>>)
\* an old-layout row whose amount is no money token
BadAmountLine ==
    str_join(<<" ">>, <<TokDate, TokDate, TokLane, TokWord, TokWord, TokWord,
                        <<"3", "1">>, <<"N", "/", "A">>, TokBalance>>)
\* a fee row whose balance is no money token
BadBalanceLine ==
    str_join(<<" ">>, <<TokDate, <<"F", "e", "e">>, TokAmount, <<"N", "/", "A">>>>)
JunkLine == str_join(<<" ">>, <<TokWord, TokWord>>)

TollPage == LaneLine \o <<"\n">> \o JunkLine \o <<"\n">> \o FeeLine \o <<"\n">>
BadAmountPage ==
    JunkLine \o <<"\n">> \o BadAmountLine \o <<"\n">> \o BadBalanceLine
JunkPage == JunkLine \o <<"\n">>

\* documents as the page texts pdfplumber extracts (None for a page without
\* text): no page, no matching line, one page, two pages
Documents ==
    { <<>>, <<None, JunkPage>>, <<TollPage>>, <<BadAmountPage, TollPage>> }

\* what the input path names: a file, a folder of files, or nothing
FileSystems ==
    { [kind |-> "file", path |-> 1, files |-> (1 :> [pdf |-> b, doc |-> d])] :
        b \in BOOLEAN, d \in Documents }
    \cup
    { [kind |-> "dir", path |-> 0, files |-> fl] :
        fl \in UNION { [S -> [pdf : BOOLEAN, doc : Documents]] :
                         S \in SUBSET (1..MaxFiles) } }
    \cup
    { [kind |-> "missing", path |-> 0, files |-> <<>>] }

\* the pages of the document main is reading
CurrentPages == fs.files[pdf_files[idx + 1]].doc

Init ==
    /\ pc = "collect_inputs"
    /\ fs \in FileSystems
    /\ pdf_files = <<>>
    /\ frames = <<>>
    /\ idx = 0
    /\ page_no = 0
    /\ rows = <<>>
    /\ tx_df = <<>>
    /\ error = "none"
    /\ IdleMoney /\ IdleLine /\ IdleSelect

\* pdf_files = collect_inputs_func(input_path); an exception ends the run
CollectInputs ==
    /\ pc = "collect_inputs"
    /\ LET got == collect_inputs_func(fs)
       IN  /\ pdf_files' = got.files
           /\ error' = got.raised
           /\ pc' = IF got.raised = "none" THEN "parse_many" ELSE "failed"
    /\ UNCHANGED <<value, result, line, line_tokens, row, page_text, yielded,
                   fs, frames, idx, page_no, rows, tx_df>>

\* parse_many_func: the loop takes the next pdf; parse_pdf_func opens it
OpenPdf ==
    /\ pc = "parse_many"
    /\ idx < Len(pdf_files)
    /\ rows' = <<>>
    /\ page_no' = 0
    /\ pc' = "parse_pdf"
    /\ UNCHANGED <<value, result, line, line_tokens, row, page_text, yielded,
                   fs, pdf_files, frames, idx, tx_df, error>>

\* parse_pdf_func: one page of the open pdf
ParsePage ==
    /\ pc = "parse_pdf"
    /\ page_no < Len(CurrentPages)
    /\ rows' = PageRows(rows, CurrentPages[page_no + 1])
    /\ page_no' = page_no + 1
    /\ UNCHANGED <<pc, value, result, line, line_tokens, row, page_text, yielded,
                   fs, pdf_files, frames, idx, tx_df, error>>

\* parse_pdf_func returns its frame and parse_many_func appends it
FinishPdf ==
    /\ pc = "parse_pdf"
    /\ page_no = Len(CurrentPages)
    /\ frames' = Append(frames, AddNumericColumns(rows))
    /\ idx' = idx + 1
    /\ pc' = "parse_many"
    /\ UNCHANGED <<value, result, line, line_tokens, row, page_text, yielded,
                   fs, pdf_files, page_no, rows, tx_df, error>>

\* parse_many_func returns the concatenation
ConcatFrames ==
    /\ pc = "parse_many"
    /\ idx = Len(pdf_files)
    /\ tx_df' = pd_concat(frames)
    /\ pc' = "export"
    /\ UNCHANGED <<value, result, line, line_tokens, row, page_text, yielded,
                   fs, pdf_files, frames, idx, page_no, rows, error>>

\* main writes tx_df to the workbook and ends
WriteExcel ==
    /\ pc = "export"
    /\ pc' = "done"
    /\ UNCHANGED <<value, result, line, line_tokens, row, page_text, yielded,
                   fs, pdf_files, frames, idx, page_no, rows, tx_df, error>>

Next ==
    \/ CollectInputs
    \/ OpenPdf
    \/ ParsePage
    \/ FinishPdf
    \/ ConcatFrames
    \/ WriteExcel

Spec == Init /\ [][Next]_vars

-----------------------------------------------------------------------------
(* Money Normalizer properties (SpecMoney)                                 *)

\* the digits of a token read as one number, every other character skipped
RECURSIVE TokenDigits(_, _)
TokenDigits(s, acc) ==
    IF s = <<>> THEN acc
    ELSE IF Head(s) \in DigitChars
         THEN TokenDigits(Tail(s), acc * 10 + DigitValue(Head(s)))
         ELSE TokenDigits(Tail(s), acc)

RECURSIVE Pow10(_)
Pow10(n) == IF n <= 0 THEN 1 ELSE 10 * Pow10(n - 1)

\* the finite float f is worth exactly c hundredths
WorthCents(f, c) ==
    IF f[5] >= -2 THEN f[4] * Pow10(f[5] + 2) = c
    ELSE f[4] = c * Pow10(0 - 2 - f[5])

\* C5: for every token of the form $D.DD or -$D.DD (D digits and commas),
\* money_to_float_func returns a finite number whose value in hundredths is
\* the token's digits, negative exactly when the token starts with "-".
C5_MoneyExact ==
    (pc = "money_done" /\ value # None /\ MONEY_RE(value)) =>
        /\ IsFloat(result)
        /\ result[3] = "finite"
        /\ result[2] = (Head(value) = "-")
        /\ WorthCents(result, TokenDigits(value, 0))

\* C5 witness: -$5,000.50 has been converted to -5000.50
C5_Witness ==
    /\ pc = "money_done"
    /\ value = <<"-", "$", "5", ",", "0", "0", "0", ".", "5", "0">>
    /\ result = Float(TRUE, "finite", 500050, -2)

\* "optional digits, optional single '.', digits"
PlainDecimal(s) ==
    /\ Len(s) > 0
    /\ \A i \in 1..Len(s) : s[i] \in DigitChars \cup {"."}
    /\ Cardinality({i \in 1..Len(s) : s[i] = "."}) <= 1
    /\ s[Len(s)] \in DigitChars

\* what is left of a token once every "$", "," and "-" is taken out
Remainder(s) == str_remove(str_remove(str_remove(s, "$"), ","), "-")

\* C6: a token whose remainder after stripping "$", "," and "-" is no plain
\* decimal number (digits, at most one ".", digits) is converted to None.
C6_InvalidIsNull ==
    (pc = "money_done" /\ value # None /\ ~PlainDecimal(Remainder(value))) =>
        result = None

-----------------------------------------------------------------------------
(* Field Extractor and Format Classifier properties (SpecLine)             *)

\* the whitespace tokens of the line that was parsed
LineTokens == line_tokens

Parsed == pc = "parse_done" /\ row # NoRow

\* C1: whenever parse_transaction_line_func returns a record, its amount is
\* the line's second-to-last token and its balance the last one, verbatim,
\* and neither is None.
C1_AmountBalanceAreLastTokens ==
    Parsed =>
        LET toks == LineTokens
        IN  /\ Len(toks) >= 4
            /\ row.amount = toks[Len(toks) - 1]
            /\ row.balance = toks[Len(toks)]
            /\ row.amount # None
            /\ row.balance # None

\* C1 witness: a new-layout row of 9 tokens or more was returned with the
\* amount and balance tokens in place
C1_Witness ==
    /\ Parsed
    /\ row.lane_txn_id = TokLane
    /\ Len(LineTokens) >= 9
    /\ row.amount = TokAmount
    /\ row.balance = TokBalance

TollFields(r) ==
    {r.tag_or_plate, r.agency, r.plaza, r.entry_date, r.entry_time,
     r.exit_plaza, r.exit_date, r.exit_time, r.plan, r.vehicle_class}

\* C4: no record has a description together with a toll-specific field; a
\* double-date line of 6 or fewer tokens gives a record with nothing but
\* posting_date, transaction_date, description, amount and balance.
C4_DescriptionExcludesTollFields ==
    Parsed =>
        LET toks == LineTokens
        IN  /\ row.description # None => TollFields(row) = {None}
            /\ (DATE_RE(toks[1]) /\ DATE_RE(toks[2]) /\ Len(toks) <= 6)
                  => (TollFields(row) = {None} /\ row.lane_txn_id = None)

\* the three layouts as the classifier states them
LaneCond(toks) == str_isdigit(toks[1]) /\ DATE_RE(toks[2])
DoubleCond(toks) == DATE_RE(toks[1]) /\ DATE_RE(toks[2])
SingleCond(toks) == DATE_RE(toks[1]) /\ ~DATE_RE(toks[2])

RuleHolds(rule, toks) ==
    CASE rule = "lane" -> LaneCond(toks)
      [] rule = "double" -> DoubleCond(toks)
      [] rule = "single" -> SingleCond(toks)

\* the first rule of an order that holds, "none" when none does
FirstMatch(order, toks) ==
    IF RuleHolds(order[1], toks) THEN order[1]
    ELSE IF RuleHolds(order[2], toks) THEN order[2]
    ELSE IF RuleHolds(order[3], toks) THEN order[3]
    ELSE "none"

RuleOrders ==
    {o \in [1..3 -> {"lane", "double", "single"}] : \A i, j \in 1..3 : i # j => o[i] # o[j]}

\* the layout the returned record was built for
VariantOf(r) ==
    IF r = NoRow THEN "none"
    ELSE IF r.lane_txn_id # None THEN "lane"
    ELSE IF r.transaction_date # None THEN "double"
    ELSE "single"

\* C9: no line meets the lane condition and the double-date condition at
\* once, and the layout parse_transaction_line_func assigns is the one every
\* order of testing the three rules gives.
C9_VariantsExclusive ==
    pc = "parse_done" =>
        LET toks == LineTokens
        IN  Len(toks) >= 4 =>
                /\ ~(LaneCond(toks) /\ DoubleCond(toks))
                /\ \A o \in RuleOrders : FirstMatch(o, toks) = VariantOf(row)

\* C9 witness: a line of digits then a date was classified as a lane row
C9_Witness ==
    /\ pc = "parse_done"
    /\ Len(LineTokens) >= 4
    /\ LineTokens[1] = TokLane
    /\ LineTokens[2] = TokDate
    /\ VariantOf(row) = "lane"

\* a toll row: new layout with 9 tokens or more, old layout with more than 6
IsTollLine(toks) ==
    \/ LaneCond(toks) /\ Len(toks) >= 9
    \/ DoubleCond(toks) /\ Len(toks) > 6

\* C10: in a toll row whose middle segment starts with a date, entry_date is
\* that token, entry_time the next one only if it is a time, and the first
\* middle token assigned to neither is exit_plaza.
C10_RestKeepsUnassignedTokens ==
    Parsed =>
        LET toks    == LineTokens
            middle  == Slice(toks, 5, Len(toks) - 4)
            hasTime == Len(middle) > 1 /\ TIME_RE(middle[2])
            rest    == IF hasTime THEN Slice(middle, 2, Len(middle))
                       ELSE Slice(middle, 1, Len(middle))
        IN  (IsTollLine(toks) /\ middle # <<>> /\ DATE_RE(middle[1])) =>
                /\ row.entry_date = middle[1]
                /\ row.entry_time = (IF hasTime THEN middle[2] ELSE None)
                /\ row.exit_plaza = (IF rest = <<>> THEN None ELSE rest[1])

-----------------------------------------------------------------------------
(* Line Selector properties (SpecSelect)                                   *)

\* the lines of the page text, each one trimmed
TrimmedLines ==
    LET lns == str_splitlines(page_text)
    IN  [i \in 1..Len(lns) |-> str_strip(lns[i])]

\* what the selector is to accept: a non-empty line of 4 tokens or more
\* starting with digits and a date, or with a date
Acceptable(ln) ==
    /\ ln # <<>>
    /\ LET toks == str_split(ln)
       IN  /\ Len(toks) >= 4
           /\ \/ str_isdigit(toks[1]) /\ DATE_RE(toks[2])
              \/ DATE_RE(toks[1])

\* C2: iter_transaction_lines_func yields exactly the trimmed lines that are
\* non-empty, have at least 4 tokens and start with digits and a date or
\* with a date, in their order in the page; so none with fewer than 4 tokens.
C2_SelectorYieldsExactlyMatchingLines ==
    pc = "select_done" =>
        LET lns  == TrimmedLines
            keep == {i \in 1..Len(lns) : Acceptable(lns[i])}
            at   == Ascending(keep)
        IN  /\ yielded = [k \in 1..Cardinality(keep) |-> lns[at[k]]]
            /\ \A k \in 1..Len(yielded) : Len(str_split(yielded[k])) >= 4

\* C2 witness: a page of two different matching lines, a lane line and then
\* a date line, both yielded in that order
C2_Witness ==
    /\ pc = "select_done"
    /\ Len(TrimmedLines) = 2
    /\ Len(yielded) = 2
    /\ str_split(yielded[1])[1] = TokLane
    /\ str_split(yielded[2])[1] = TokDate

-----------------------------------------------------------------------------
(* Pipeline properties (Spec)                                              *)

\* the document behind the i-th entry of pdf_files
DocOf(i) == fs.files[pdf_files[i]].doc

\* the lines the selector yields for a document, page after page
RECURSIVE SelectedLines(_)
SelectedLines(doc) ==
    IF doc = <<>> THEN <<>>
    ELSE iter_transaction_lines_func(PageText(Head(doc))) \o SelectedLines(Tail(doc))

\* those of them the parser turns into a row
RecordLines(doc) ==
    SelectSeq(SelectedLines(doc), LAMBDA ln : parse_transaction_line_func(ln) # NoRow)

\* the record of one line: its parsed fields and the two numeric fields
RecordOf(ln) ==
    LET r == parse_transaction_line_func(ln)
    IN  r @@ [amount_num  |-> money_to_float_func(r.amount),
              balance_num |-> money_to_float_func(r.balance)]

\* the records a document gives when it is parsed alone
ParsedAlone(doc) ==
    LET lns == RecordLines(doc) IN [k \in 1..Len(lns) |-> RecordOf(lns[k])]

\* the number of records of the documents before the i-th
RECURSIVE Offset(_)
Offset(i) == IF i <= 1 THEN 0 ELSE Offset(i - 1) + Len(ParsedAlone(DocOf(i - 1)))

Amounts(rs) == [k \in 1..Len(rs) |-> rs[k].amount]

\* C3: every frame appended so far holds the records its document gives when
\* parsed alone, and the finished table is these record sequences laid end to
\* end in the order of pdf_files, nothing reordered, repeated or lost; within
\* the two-page document the records follow page order and then line order.
C3_BatchIsConcatenationInInputOrder ==
    /\ \A i \in 1..Len(frames) : frames[i] = ParsedAlone(DocOf(i))
    /\ pc = "done" =>
        /\ Len(tx_df) = Offset(Len(pdf_files) + 1)
        /\ \A i \in 1..Len(pdf_files) :
            /\ SubSeq(tx_df, Offset(i) + 1, Offset(i + 1)) = ParsedAlone(DocOf(i))
            /\ DocOf(i) = <<BadAmountPage, TollPage>> =>
                 Amounts(SubSeq(tx_df, Offset(i) + 1, Offset(i + 1)))
                   = << <<"N", "/", "A">>, TokAmount, TokAmount,
                        <<"-", "$", "1", ".", "0", "0">> >>

\* C3 witness: a finished run over two documents with different records, the
\* two-page document first and the one-page document second
C3_Witness ==
    /\ pc = "done"
    /\ Len(pdf_files) = 2
    /\ DocOf(1) = <<BadAmountPage, TollPage>>
    /\ DocOf(2) = <<TollPage>>
    /\ Len(tx_df) = 6

\* C7: every line the parser turns into a row has its record in the frame of
\* its document, whether its money tokens convert or not: the record carries
\* the parsed fields, the amount and balance strings are the line's last two
\* tokens, amount_num and balance_num are None exactly when the conversion of
\* their own token gives None, and the finished table has a record for every
\* such line of every document.
C7_FailedMoneyKeepsRecord ==
    /\ \A i \in 1..Len(frames) :
        LET lns == RecordLines(DocOf(i))
        IN  /\ Len(frames[i]) = Len(lns)
            /\ \A k \in 1..Len(lns) :
                LET r    == frames[i][k]
                    toks == str_split(lns[k])
                IN  /\ [f \in DOMAIN empty_row |-> r[f]]
                         = parse_transaction_line_func(lns[k])
                    /\ r.amount = FromEnd(toks, 2)
                    /\ r.balance = FromEnd(toks, 1)
                    /\ r.amount_num = money_to_float_func(FromEnd(toks, 2))
                    /\ r.balance_num = money_to_float_func(FromEnd(toks, 1))
                    /\ (r.amount_num = None) <=> ~IsFloat(py_float(
                           str_remove(str_remove(str_remove(r.amount, "$"), ","), "-")))
    /\ pc = "done" => Len(tx_df) = Offset(Len(pdf_files) + 1)

\* C7 witness: a finished run whose first record has a null amount_num beside
\* a converted balance_num, whose second has a null balance_num beside a
\* converted amount_num, both followed by the records of the next page and of
\* the next document
C7_Witness ==
    /\ pc = "done"
    /\ Len(pdf_files) = 2
    /\ Len(tx_df) = 6
    /\ tx_df[1].amount = <<"N", "/", "A">>
    /\ tx_df[1].amount_num = None
    /\ IsFloat(tx_df[1].balance_num)
    /\ tx_df[1].tag_or_plate = TokLane
    /\ tx_df[2].balance = <<"N", "/", "A">>
    /\ tx_df[2].balance_num = None
    /\ IsFloat(tx_df[2].amount_num)
    /\ IsFloat(tx_df[6].amount_num)

\* the input path names nothing, or a folder holding no file named *.pdf
NoInput ==
    \/ fs.kind = "missing"
    \/ fs.kind = "dir" /\ \A n \in DOMAIN fs.files : ~fs.files[n].pdf

\* C8: once the inputs are collected the run has failed exactly when the path
\* names nothing or a folder without PDF files; it carries an error message
\* exactly when it has failed, and a failed run has opened no document; a run
\* that finishes carries no error, and each of its documents without a
\* matching line has contributed an empty frame.
C8_FatalExactlyWithoutInput ==
    /\ pc # "collect_inputs" => (pc = "failed" <=> NoInput)
    /\ error # "none" <=> pc = "failed"
    /\ pc = "failed" =>
        /\ pdf_files = <<>> /\ frames = <<>> /\ rows = <<>>
        /\ idx = 0 /\ page_no = 0 /\ tx_df = <<>>
    /\ pc = "done" =>
        /\ Len(frames) = Len(pdf_files)
        /\ \A i \in 1..Len(pdf_files) :
             SelectedLines(DocOf(i)) = <<>> => frames[i] = <<>>

\* C8 witness: the run has failed on a folder that holds files, none of them
\* named *.pdf
C8_Witness ==
    /\ pc = "failed"
    /\ fs.kind = "dir"
    /\ DOMAIN fs.files # {}
    /\ error = "FileNotFoundError: No PDF files found in folder."

-----------------------------------------------------------------------------
(* Layout properties (SpecLine)                                            *)

\* the tokens strictly between position a (counted from 0) and the trailing
\* amount/balance pair, joined by single spaces; None when there are none
DescriptionAfter(toks, a) ==
    LET between == SubSeq(toks, a + 2, Len(toks) - 2)
    IN  IF between = <<>> THEN None ELSE str_join(<<" ">>, between)

\* C11: a line of 4 tokens or more starting with digits and a date gives a
\* record. Below 9 tokens the record holds lane_txn_id, posting_date, amount,
\* balance and, as description, the tokens between the date and the trailing
\* pair joined by single spaces (None when there are none), and nothing else.
\* From 9 tokens on, lane_txn_id, posting_date, tag_or_plate, agency and plaza
\* are tokens 0 to 4, plan and vehicle_class the 4th and 3rd tokens from the
\* end, and description is None.
C11_LaneRecordFields ==
    pc = "parse_done" =>
        LET toks == LineTokens
            n    == Len(toks)
        IN  (n >= 4 /\ LaneCond(toks)) =>
                /\ row # NoRow
                /\ row.lane_txn_id = toks[1]
                /\ row.posting_date = toks[2]
                /\ n < 9 =>
                     row = [empty_row EXCEPT !.lane_txn_id = toks[1],
                                             !.posting_date = toks[2],
                                             !.amount = toks[n - 1],
                                             !.balance = toks[n],
                                             !.description = DescriptionAfter(toks, 1)]
                /\ n >= 9 =>
                     /\ row.tag_or_plate = toks[3]
                     /\ row.agency = toks[4]
                     /\ row.plaza = toks[5]
                     /\ row.plan = toks[n - 3]
                     /\ row.vehicle_class = toks[n - 2]
                     /\ row.description = None
                     /\ row.transaction_date = None

\* C11 witness: a lane line of 8 tokens, the longest that falls back, was
\* parsed into a record whose description joins its four middle tokens
C11_Witness ==
    /\ Parsed
    /\ Len(LineTokens) = 8
    /\ LaneCond(LineTokens)
    /\ row.description =
         TokWord \o <<" ">> \o TokDate \o <<" ">> \o TokTime \o <<" ">> \o TokWord
    /\ row.tag_or_plate = None

\* C12: a line of 4 tokens or more starting with a date that no date follows
\* gives a record holding posting_date = token 0, amount, balance and, as
\* description, the tokens from index 1 up to the trailing pair joined by
\* single spaces; lane_txn_id, transaction_date and every toll field are None.
C12_SingleDateRecordFields ==
    pc = "parse_done" =>
        LET toks == LineTokens
            n    == Len(toks)
        IN  (n >= 4 /\ SingleCond(toks)) =>
                /\ row = [empty_row EXCEPT !.posting_date = toks[1],
                                           !.amount = toks[n - 1],
                                           !.balance = toks[n],
                                           !.description = DescriptionAfter(toks, 0)]
                /\ row.description # None
                /\ row.lane_txn_id = None
                /\ row.transaction_date = None
                /\ TollFields(row) = {None}

\* C12 witness: a line of a date, a word and a date before the trailing pair
\* was parsed into a fee record describing the word and the date
C12_Witness ==
    /\ Parsed
    /\ LineTokens = <<TokDate, TokWord, TokDate, TokAmount, TokBalance>>
    /\ row.posting_date = TokDate
    /\ row.description = TokWord \o <<" ">> \o TokDate
    /\ row.transaction_date = None

-----------------------------------------------------------------------------
(* Selector and parser together (SpecSelect)                               *)

\* the layouts whose rule the tokens meet
RulesMet(toks) == {rule \in {"lane", "double", "single"} : RuleHolds(rule, toks)}

\* C13: every line iter_transaction_lines_func yields is turned into a record
\* by parse_transaction_line_func, and meets the rule of exactly one layout,
\* the one its record was built for; every line of the page that has 4 tokens
\* or more and that the parser turns into a record is yielded, trimmed; so
\* the loop of parse_pdf_func over the page keeps one row per yielded line.
C13_SelectorAndParserAgree ==
    pc = "select_done" =>
        LET raw == str_splitlines(page_text)
        IN  /\ \A k \in 1..Len(yielded) :
                LET toks == str_split(yielded[k])
                    r    == parse_transaction_line_func(yielded[k])
                IN  /\ r # NoRow
                    /\ RulesMet(toks) = {VariantOf(r)}
            /\ \A i \in 1..Len(raw) :
                (/\ Len(str_split(raw[i])) >= 4
                 /\ parse_transaction_line_func(raw[i]) # NoRow)
                    => \E k \in 1..Len(yielded) : yielded[k] = str_strip(raw[i])
            /\ Len(ParseLines(yielded, <<>>)) = Len(yielded)
            /\ Len(PageRows(<<>>, page_text)) = Len(yielded)

\* C13 witness: of a page of two lines of 4 tokens, the one starting with a
\* date was yielded and parses into a record, the one starting with digits
\* and a word was neither yielded nor parsed
C13_Witness ==
    /\ pc = "select_done"
    /\ Len(TrimmedLines) = 2
    /\ Len(yielded) = 1
    /\ str_split(yielded[1]) = <<TokDate, TokWord, TokAmount, TokBalance>>
    /\ VariantOf(parse_transaction_line_func(yielded[1])) = "single"
    /\ str_split(TrimmedLines[2]) = <<TokLane, TokWord, TokAmount, TokBalance>>
    /\ parse_transaction_line_func(TrimmedLines[2]) = NoRow

-----------------------------------------------------------------------------
(* Token positions (SpecLine)                                              *)

\* the record holds, in each positional field, the token at the position
\* TokenPositions gives for it, and None where it gives none
PositionsAgree(r, toks) ==
    \A f \in PositionalFields :
        r[f] = (IF TokenPositions(toks)[f] = 0 THEN None
                ELSE toks[TokenPositions(toks)[f]])

\* the positional fields of the record that are not None
FieldsSet(r) == {f \in PositionalFields : r[f] # None}

\* C14: in every record the positional fields that are not None are read from
\* pairwise different token positions, and only amount and balance are read
\* from the last two.
C14_FieldsFromDistinctPositions ==
    Parsed =>
        LET toks == LineTokens
            n    == Len(toks)
            pos  == TokenPositions(toks)
        IN  PositionsAgree(row, toks) =>
                /\ \A f, g \in FieldsSet(row) : f # g => pos[f] # pos[g]
                /\ \A f \in FieldsSet(row) \ {"amount", "balance"} : pos[f] < n - 1

=============================================================================
